---- MODULE Spec2Model ----
(***************************************************************************)
(* A model of the hlc container library: str.h (string_t), slice.h         *)
(* (slice_t), buf.h (BUF_* macros) and vect.h (struct _vect_t).            *)
(*                                                                         *)
(* Memory is modelled at the level of bytes.  A heap block is a sequence   *)
(* of cells; a cell holds a byte value or Indet, the indeterminate value   *)
(* of storage that malloc/realloc handed out and nobody has written yet.   *)
(* An allocator call takes its outcome (success or NULL) as an argument,   *)
(* which the actions draw nondeterministically.  An access through a null  *)
(* pointer or outside the block is undefined behaviour: the operators      *)
(* report it in the field ub and the actions stop the process there.       *)
(***************************************************************************)
EXTENDS Integers, Sequences, FiniteSets, TLC

(* ------------------------------ bounds -------------------------------- *)

\* width of size_t in the model (the code's size_t has 64 bits)
SIZE_BITS == 8
\* non-null byte values 1..MaxChar; 0 is the null byte
MaxChar == 2
\* longest C string handed to str_from, str_contains, ... as an argument
MaxCStr == 3
\* largest delta / index argument of str_grow, str_reserve, str_truncate
MaxDelta == 2
\* number of calls made on the string in one run
MaxOps == 2
\* largest length, capacity or bound argument of the slice operations
MaxSlcCap == 3
\* number of calls made on the slices in one run
MaxSlcOps == 4
\* number of BUF_PUSH calls made on the buffer in one run
MaxPush == 5
\* number of BUF_PUSH calls made on an attached buffer in one run
MaxAttPush == 3
\* number of realloc failures in one run of the BUF_PUSH retry loop
MaxRetry == 2
\* number of calls made on the vector in one run
MaxVectOps == 3

(* --------------------------- bytes and memory -------------------------- *)

\* the indeterminate content of a cell nobody has written since allocation
Indet == MaxChar + 1

Char == 1..MaxChar
Byte == 0..MaxChar
Cell == Byte \cup {Indet}

Min(a, b) == IF a <= b THEN a ELSE b
Max(a, b) == IF a >= b THEN a ELSE b

\* all sequences over S of length at most n
SeqUpTo(S, n) == UNION {[1..k -> S] : k \in 0..n}

\* the null-terminated C strings the callers pass in (without the final 0)
CStrs == SeqUpTo(Char, MaxCStr)

\* n cells all holding v
Fill(n, v) == [i \in 1..n |-> v]

\* what a read of cell c yields when an indeterminate cell reads as j
Rd(c, j) == IF c = Indet THEN j ELSE c

(* ------------------------------ size_t --------------------------------- *)

STR_SIZE_MAX == 2 ^ SIZE_BITS - 1

\* unsigned arithmetic of size_t: results wrap modulo 2^SIZE_BITS
Wrap(x) == x % (STR_SIZE_MAX + 1)

(* ------------------------------ str.h ---------------------------------- *)

STR_INITIAL_BUFSIZ == 32

\* string_t {char *s, *e; size_t cap}: s is NULL or points at the block mem,
\* e = s + len.  mem is the content of the block s points at (its length is
\* the allocated size), <<>> when s is NULL.
NULL == "null"
PTR == "ptr"
MkStr(s, len, cap, mem) == [s |-> s, len |-> len, cap |-> cap, mem |-> mem]

\* a zero-initialised string_t
ZeroStr == MkStr(NULL, 0, 0, <<>>)

\* calloc(STR_INITIAL_BUFSIZ, 1): zeroed block, or NULL when ok is FALSE
str_new(ok) ==
    IF ok THEN MkStr(PTR, 0, STR_INITIAL_BUFSIZ, Fill(STR_INITIAL_BUFSIZ, 0))
          ELSE MkStr(NULL, 0, STR_INITIAL_BUFSIZ, <<>>)

str_free(str) == MkStr(NULL, 0, 0, <<>>)

str_cap(str) == IF str.cap = 0 THEN 0 ELSE str.cap - 1

str_len(str) == str.len

\* realloc(ptr, n) on the block with content mem.  ok: the allocator finds
\* memory.  zeroNull: a request for 0 bytes yields NULL (otherwise a block
\* of size 0).  New cells are indeterminate.
realloc(mem, n, ok, zeroNull) ==
    IF n = 0 THEN [p |-> IF zeroNull THEN NULL ELSE PTR, mem |-> <<>>]
    ELSE IF ~ok THEN [p |-> NULL, mem |-> <<>>]
    ELSE [p |-> PTR,
          mem |-> [i \in 1..n |-> IF i <= Len(mem) THEN mem[i] ELSE Indet]]

\* str_grow_newcap without the extra byte on a zero start
str_grow_newcap_nozero(cap, delta) ==
    LET nc0 == Wrap(cap + delta)
        nc2 == IF STR_SIZE_MAX - delta < cap THEN STR_SIZE_MAX ELSE nc0
    IN  IF delta = 0 THEN Wrap(cap * 2) ELSE nc2

\* the capacity str_grow asks realloc for
str_grow_newcap(cap, delta) ==
    LET nc0 == Wrap(cap + delta)
        nc1 == IF cap = 0 THEN Wrap(nc0 + 1) ELSE nc0
        nc2 == IF STR_SIZE_MAX - delta < cap THEN STR_SIZE_MAX ELSE nc1
    IN  IF delta = 0 THEN Wrap(cap * 2) ELSE nc2

\* the value str_grow returns
str_grow_stat(cap, delta) ==
    LET st1 == IF STR_SIZE_MAX - delta < cap THEN 0 ELSE 1
    IN  IF delta = 0 /\ STR_SIZE_MAX - cap < cap THEN 0 ELSE st1

\* str_grow: the result of realloc is stored unchecked
str_grow(str, delta, ok, zeroNull) ==
    LET newcap == str_grow_newcap(str.cap, delta)
        r == realloc(str.mem, newcap, ok, zeroNull)
    IN  [str |-> MkStr(r.p, str.len, newcap, r.mem),
         ret |-> str_grow_stat(str.cap, delta),
         ub |-> FALSE]

str_reserve(str, delta, ok, zeroNull) ==
    LET cap == str_cap(str)
        len == str_len(str)
    IN  IF Wrap(cap - len + STR_SIZE_MAX + 1) >= delta
        THEN [str |-> str, ret |-> -1, ub |-> FALSE]
        ELSE str_grow(str, delta, ok, zeroNull)

\* the cell at byte offset off (0-based) can be read or written through s
InBlock(str, off) == str.s = PTR /\ off < Len(str.mem)

\* *(s + off) = v
Store(str, off, v) == [str EXCEPT !.mem[off + 1] = v]

\* for each byte of bytes in turn: *(str->e++) = byte
PutBytes(str, bytes) ==
    IF bytes = <<>> THEN [str |-> str, ub |-> FALSE]
    ELSE IF ~InBlock(str, str.len + Len(bytes) - 1) THEN [str |-> str, ub |-> TRUE]
    ELSE [str |-> [str EXCEPT
                     !.mem = [i \in 1..Len(@) |->
                                IF i > str.len /\ i <= str.len + Len(bytes)
                                THEN bytes[i - str.len] ELSE @[i]],
                     !.len = @ + Len(bytes)],
          ub |-> FALSE]

\* *str->e = '\0'
PutNul(str) ==
    IF InBlock(str, str.len) THEN [str |-> Store(str, str.len, 0), ub |-> FALSE]
    ELSE [str |-> str, ub |-> TRUE]

\* a str_compact that keeps no byte for the terminator
str_compact_len(str, ok) ==
    LET r == realloc(str.mem, str.len, ok, FALSE)
    IN  IF r.p = NULL THEN str
        ELSE MkStr(r.p, str.len, str.len, r.mem)

\* realloc(str->s, len + 1); a failed reallocation leaves the string alone
str_compact(str, ok) ==
    LET r == realloc(str.mem, str.len + 1, ok, FALSE)
    IN  IF r.p = NULL THEN str
        ELSE MkStr(r.p, str.len, str.len + 1, r.mem)

\* a str_truncate that moves the end without writing the null byte
str_truncate_nonul(str, len) ==
    IF len >= str.len THEN [str |-> str, ub |-> FALSE]
    ELSE [str |-> [str EXCEPT !.len = len], ub |-> FALSE]

str_truncate(str, len) ==
    IF len >= str.len THEN [str |-> str, ub |-> FALSE]
    ELSE PutNul([str EXCEPT !.len = len])

str_reset(str) == str_truncate(str, 0)

\* the k-th allocation request of one call succeeds
AllocOk(al, k) == IF k <= Len(al) THEN al[k] ELSE TRUE

\* the loop of str_from: ret is the string built so far, walk the index of
\* the next character of cstr (Len(cstr) + 1 is its null byte), k the number
\* of the next allocation request.  One step is the run of iterations up to
\* the next str_grow or the final null byte: each iteration stores *walk at
\* e and, unless it was the null byte, advances e; when e - s reaches cap
\* the buffer is doubled.  A store outside the block is undefined.
RECURSIVE str_from_loop(_, _, _, _, _)
str_from_loop(ret, cstr, walk, k, al) ==
    LET rest == Len(cstr) - walk + 1
        room == ret.cap - ret.len
        final == room <= 0 \/ rest < room
        n == IF final THEN rest ELSE room
        stores == IF final THEN n + 1 ELSE n
        r2 == [ret EXCEPT
                 !.mem = [i \in 1..Len(@) |->
                            IF i > ret.len /\ i <= ret.len + n
                            THEN cstr[walk + i - ret.len - 1]
                            ELSE IF final /\ i = ret.len + n + 1 THEN 0
                            ELSE @[i]],
                 !.len = @ + n]
    IN  IF ~InBlock(ret, ret.len + stores - 1) THEN [str |-> ret, ub |-> TRUE]
        ELSE IF final THEN [str |-> r2, ub |-> FALSE]
        ELSE LET g == str_grow(r2, 0, AllocOk(al, k), TRUE)
             IN  IF g.ret = 0
                 THEN [str |-> str_new(AllocOk(al, k + 1)), ub |-> FALSE]
                 ELSE str_from_loop(g.str, cstr, walk + n, k + 1, al)

\* a str_from that copies no more than the initial buffer holds
str_from_initial(cnull, cstr, al) ==
    LET ret == str_new(AllocOk(al, 1))
        head == [i \in 1..Min(Len(cstr), STR_INITIAL_BUFSIZ - 1) |-> cstr[i]]
    IN  IF cnull THEN [str |-> ret, ub |-> FALSE]
        ELSE str_from_loop(ret, head, 1, 2, al)

\* str_from(cstr): cnull says that cstr is the null pointer
str_from(cnull, cstr, al) ==
    LET ret == str_new(AllocOk(al, 1))
    IN  IF cnull THEN [str |-> ret, ub |-> FALSE]
        ELSE str_from_loop(ret, cstr, 1, 2, al)

\* the offset of the first null byte of the block (an indeterminate cell
\* reading as j), or -1 when the block holds none
FirstNul(mem, j) ==
    LET Z == {i \in 1..Len(mem) : Rd(mem[i], j) = 0}
    IN  IF Z = {} THEN 0 - 1 ELSE (CHOOSE i \in Z : \A k \in Z : i <= k) - 1

\* str_clone: str_from reads str_cstr(str) up to its first null byte
str_clone(str, al, j) ==
    IF str_len(str) = 0 THEN [str |-> ZeroStr, ub |-> FALSE]
    ELSE IF str.s = NULL THEN str_from(TRUE, <<>>, al)
    ELSE LET z == FirstNul(str.mem, j)
         IN  IF z < 0 THEN [str |-> ZeroStr, ub |-> TRUE]
             ELSE str_from(FALSE, [i \in 1..z |-> Rd(str.mem[i], j)], al)

\* one copy loop of str_concat:
\*   if (walk) do { *work.e = *walk; walk++, work.e++; } while (walk < x->e);
concat_copy(work, x) ==
    IF x.s = NULL THEN [str |-> work, ub |-> FALSE]
    ELSE LET n == Max(1, x.len)
         IN  IF n > Len(x.mem) THEN [str |-> work, ub |-> TRUE]
             ELSE PutBytes(work, SubSeq(x.mem, 1, n))

str_concat(a, b, al) ==
    LET work == str_new(AllocOk(al, 1))
        g == str_grow(work, Wrap(str_len(a) + str_len(b)), AllocOk(al, 2), TRUE)
    IN  IF g.ret = 0 THEN [str |-> g.str, ub |-> FALSE]
        ELSE LET ca == concat_copy(g.str, a)
                 cb == concat_copy(ca.str, b)
                 nu == PutNul(cb.str)
             IN  IF ca.ub THEN ca ELSE IF cb.ub THEN cb ELSE nu

\* str_get: the panic is abort = TRUE; otherwise ret is the byte read
str_get(s, i, j) ==
    IF i > str_len(s) THEN [ret |-> 0, abort |-> TRUE, ub |-> FALSE]
    ELSE IF ~InBlock(s, i) THEN [ret |-> 0, abort |-> FALSE, ub |-> TRUE]
    ELSE [ret |-> Rd(s.mem[i + 1], j), abort |-> FALSE, ub |-> FALSE]

str_set(s, i, c) ==
    IF i > str_len(s) THEN [str |-> s, ret |-> "abort", ub |-> FALSE]
    ELSE IF ~InBlock(s, i) THEN [str |-> s, ret |-> "ok", ub |-> TRUE]
    ELSE [str |-> Store(s, i, c), ret |-> "ok", ub |-> FALSE]

\* str_append for dst and src two distinct objects; srcnull: src is the null
\* pointer
str_append(dst, srcnull, src, ok, zeroNull) ==
    IF srcnull THEN [str |-> dst, ub |-> FALSE]
    ELSE LET r == str_reserve(dst, str_len(src), ok, zeroNull)
         IN  IF r.ret = 0 THEN [str |-> r.str, ub |-> FALSE]
             ELSE IF src.len > 0 /\ ~InBlock(src, src.len - 1)
             THEN [str |-> r.str, ub |-> TRUE]
             ELSE LET c == PutBytes(r.str, SubSeq(src.mem, 1, src.len))
                  IN  IF c.ub THEN c ELSE PutNul(c.str)

\* the copy loop of str_append when src is the object dst itself:
\*   for (walk = src->s; walk < src->e; walk++) *(dst->e++) = *walk;
\* every store moves src->e along with dst->e, so e - walk stays at the
\* length the string had: with length 0 the body never runs, otherwise the
\* k-th store copies the byte at offset k to offset len + k until the block
\* is full of repetitions of the content, and the next store is outside it
append_self_loop(str) ==
    IF str.len = 0 THEN PutNul(str)
    ELSE IF ~InBlock(str, str.len) THEN [str |-> str, ub |-> TRUE]
    ELSE [str |-> [str EXCEPT
                     !.mem = [i \in 1..Len(@) |->
                                IF i > str.len THEN @[((i - 1) % str.len) + 1]
                                               ELSE @[i]],
                     !.len = Len(str.mem)],
          ub |-> TRUE]

\* str_append(&s, &s)
str_append_self(s, ok, zeroNull) ==
    LET r == str_reserve(s, str_len(s), ok, zeroNull)
    IN  IF r.ret = 0 THEN [str |-> r.str, ub |-> FALSE]
        ELSE append_self_loop(r.str)

\* the iterations of the scan of str_contains for walk = lo .. hi - 1, in
\* order, entered with subwalk at offset subwalk: done when one of them
\* returns, else the offset of subwalk after the last.  A range of several
\* iterations is its first half followed by its second half.
RECURSIVE contains_run(_, _, _, _, _, _)
contains_run(str, substr, lo, hi, subwalk, j) ==
    IF hi - lo > 1
    THEN LET mid == (lo + hi) \div 2
             first == contains_run(str, substr, lo, mid, subwalk, j)
         IN  IF first.done THEN first
             ELSE contains_run(str, substr, mid, hi, first.subwalk, j)
    ELSE IF subwalk >= Len(substr)
         THEN [done |-> TRUE, ret |-> 1, ub |-> FALSE, subwalk |-> subwalk]
    ELSE IF ~InBlock(str, lo)
         THEN [done |-> TRUE, ret |-> 0, ub |-> TRUE, subwalk |-> subwalk]
    ELSE [done |-> FALSE, ret |-> 0, ub |-> FALSE,
          subwalk |-> IF Rd(str.mem[lo + 1], j) # substr[subwalk + 1]
                      THEN 0 ELSE subwalk + 1]

\* the scan of str_contains: walk and subwalk are offsets into str and substr
contains_loop(str, substr, walk, subwalk, j) ==
    IF walk > str.len THEN [ret |-> 0, ub |-> FALSE]
    ELSE LET r == contains_run(str, substr, walk, str.len + 1, subwalk, j)
         IN  IF r.done THEN [ret |-> r.ret, ub |-> r.ub]
             ELSE [ret |-> 0, ub |-> FALSE]

str_contains(str, substr, j) == contains_loop(str, substr, 0, 0, j)

\* str_equal(a, b): the lengths, then a's bytes against b->s[i]
str_equal(a, b, j) ==
    IF str_len(a) # str_len(b) THEN [ret |-> 0, ub |-> FALSE]
    ELSE IF str_len(a) > 0 /\ (~InBlock(a, a.len - 1) \/ ~InBlock(b, a.len - 1))
    THEN [ret |-> 0, ub |-> TRUE]
    ELSE [ret |-> IF \A i \in 1..a.len : Rd(a.mem[i], j) = Rd(b.mem[i], j)
                  THEN 1 ELSE 0,
          ub |-> FALSE]

\* the loop of str_compare: for (; *wa == *wb && *wa; wa++, wb++);
\* then *wa - *wb; i is the offset of wa and wb
RECURSIVE compare_loop(_, _, _, _)
compare_loop(a, b, i, j) ==
    IF ~InBlock(a, i) \/ ~InBlock(b, i) THEN [ret |-> 0, ub |-> TRUE]
    ELSE LET x == Rd(a.mem[i + 1], j)
             y == Rd(b.mem[i + 1], j)
         IN  IF x = y /\ x # 0 THEN compare_loop(a, b, i + 1, j)
             ELSE [ret |-> x - y, ub |-> FALSE]

str_compare(a, b, j) == compare_loop(a, b, 0, j)

(* ---------------------- the string state machine ----------------------- *)

\* str: one string_t object of the caller.  status: "ok" while the process
\* runs, "abort" after a panic, "ub" after undefined behaviour.  last: the
\* call made last, the string before it, its arguments and what it returned.
\* nops: the number of calls made so far.  oom: some allocation request of
\* the run has failed.
\* strDiag, slcDiag, vectDiag: the diagnostic lines the calls have written,
\* each with the stream it went to.
VARIABLES str, status, last, nops, oom, strDiag

strVars == <<str, status, last, nops, oom, strDiag>>

\* slc: the slice_t variables of the caller, by name.  heap: the blocks.
\* slcStatus: "ok", "abort" or "ub".  slcLast: the call made last.  slcOps:
\* the number of calls made so far.
VARIABLES slc, heap, slcStatus, slcLast, slcOps, slcDiag

slcVars == <<slc, heap, slcStatus, slcLast, slcOps, slcDiag>>

\* bufname, bufname_len, bufname_cap: the three variables that
\* BUF_NEW(char, bufname) declares; bufname is the pointer and the cells of
\* its block.  bufPc: the position of
\* the caller ("new" before BUF_NEW, "idle" between calls, "realloc" inside
\* the retry loop of BUF_PUSH, "abort"/"ub" once stopped).  bufElem: the
\* element of the BUF_PUSH in progress.  npush: the number of BUF_PUSH calls
\* completed.  retries: the failed iterations of the retry loop in progress.
\* bufBlk: the number of the block bufname points to (0: none), a new number
\* for every block the allocator hands out.  holder: the (storage, len, cap)
\* of the caller that BUF_ATTACH reads and BUF_DETACH writes, its storage as
\* a block number.  att: whether the buffer was attached, the triple it was
\* attached from, the attached elements followed by the pushed ones, whether
\* BUF_DETACH was called, and whether nothing was called since the attach
\* or the last detach.
VARIABLES bufname, bufname_len, bufname_cap, bufPc, bufElem, npush, retries,
          bufBlk, holder, att

bufVars == <<bufname, bufname_len, bufname_cap, bufPc, bufElem, npush, retries,
             bufBlk, holder, att>>

\* vect: the struct _vect_t of the caller's vector and the cells of its
\* block.  tsiz: sizeof(type) of the vect_declare'd type, 0 before
\* vect_init.  shadow: the values appended or set, by index, since the last
\* clear.  vectStatus: "ok", "abort" or "ub".  vectLast: the call made last.
\* vectOps: the number of calls made so far.
VARIABLES vect, tsiz, shadow, vectStatus, vectLast, vectOps, vectDiag

vectVars == <<vect, tsiz, shadow, vectStatus, vectLast, vectOps, vectDiag>>

\* a diagnostic line: the stream it is written to and how it begins
Diag(stream, prefix) == [stream |-> stream, prefix |-> prefix]

\* str_get, str_set: printf("PANIC: string index out of range ...")
str_panic == Diag("stdout", "PANIC:")

\* slice.h: fprintf(stderr, "PANIC: ...") on each of its fatal paths
slc_panic == Diag("stderr", "PANIC:")

\* vect.h: fprintf(stderr, "PANIC: ...") in the generated wrappers
vect_panic == Diag("stderr", "PANIC:")

\* the lines written once a call has ended as st
Written(diag, st, line) == IF st = "abort" THEN Append(diag, line) ELSE diag

\* strings the caller holds besides str and passes as the other argument:
\* zero-initialised, str_new(), and str_from of a short C string
ArgStrs ==
    {ZeroStr} \cup {str_from(FALSE, c, <<>>).str : c \in SeqUpTo(Char, MaxDelta)}

\* the delta arguments of str_grow and str_reserve: small ones, and ones
\* within MaxDelta of STR_SIZE_MAX
Deltas == (0..MaxDelta) \cup ((STR_SIZE_MAX - MaxDelta)..STR_SIZE_MAX)

\* the lengths of the long C strings passed to str_from: one short of the
\* initial buffer, filling it, past it, and filling and passing its double
LongLens ==
    {STR_INITIAL_BUFSIZ - 1, STR_INITIAL_BUFSIZ, STR_INITIAL_BUFSIZ + 1,
     2 * STR_INITIAL_BUFSIZ, 2 * STR_INITIAL_BUFSIZ + 1}

\* the C strings passed to str_from: the short ones and one of each long
\* length, its characters varying with the position
FromCStrs == CStrs \cup {[i \in 1..n |-> (i % MaxChar) + 1] : n \in LongLens}

\* the outcomes of the allocation requests str_from(cstr) makes: the calloc
\* of str_new and one realloc each time the buffer is full
FromAllocs(cstr) == [1..(1 + Len(cstr) \div STR_INITIAL_BUFSIZ) -> BOOLEAN]

StrInit ==
    /\ str = ZeroStr
    /\ status = "ok"
    /\ last = [op |-> "init"]
    /\ nops = 0
    /\ oom = FALSE
    /\ strDiag = <<>>

\* the bookkeeping shared by the string actions
StrDone(l, new, st, allocs) ==
    /\ status = "ok"
    /\ nops < MaxOps
    /\ nops' = nops + 1
    /\ oom' = (oom \/ FALSE \in allocs)
    /\ UNCHANGED <<slcVars, bufVars, vectVars>>
    /\ last' = l
    /\ status' = st
    /\ strDiag' = Written(strDiag, st, str_panic)
    /\ str' = IF st = "ok" THEN new ELSE str

UbStatus(ub) == IF ub THEN "ub" ELSE "ok"

\* str = str_new()
StrNew ==
    \E ok \in BOOLEAN :
        StrDone([op |-> "new", pre |-> str, ok |-> ok], str_new(ok), "ok", {ok})

\* str = str_from(cstr)
StrFrom ==
    \E cnull \in BOOLEAN, c \in FromCStrs :
        \E al \in FromAllocs(c) :
            LET r == str_from(cnull, c, al)
            IN  /\ cnull => c = <<>>
                /\ StrDone([op |-> "from", pre |-> str, cnull |-> cnull,
                            cstr |-> c, ok |-> al[1], al |-> al, res |-> r.str],
                           r.str, UbStatus(r.ub), {al[k] : k \in 1..Len(al)})

StrFree ==
    StrDone([op |-> "free", pre |-> str], str_free(str), "ok", {})

\* str_grow(&str, delta)
StrGrow ==
    \E delta \in Deltas, ok \in BOOLEAN, zn \in BOOLEAN :
        LET r == str_grow(str, delta, ok, zn)
        IN  StrDone([op |-> "grow", pre |-> str, delta |-> delta,
                        failed |-> (r.str.cap > 0 /\ ~ok), ret |-> r.ret],
                       r.str, "ok", {ok})

\* str_reserve(&str, delta)
StrReserve ==
    \E delta \in Deltas, ok \in BOOLEAN, zn \in BOOLEAN :
        LET r == str_reserve(str, delta, ok, zn)
        IN  StrDone([op |-> "reserve", pre |-> str, delta |-> delta,
                        failed |-> (r.ret # -1 /\ r.str.cap > 0 /\ ~ok),
                        ret |-> r.ret],
                       r.str, "ok", {ok})

StrCompact ==
    \E ok \in BOOLEAN :
        StrDone([op |-> "compact", pre |-> str, ok |-> ok], str_compact(str, ok),
                "ok", {ok})

StrTruncate ==
    \E n \in 0..MaxDelta :
        LET r == str_truncate(str, n)
        IN  StrDone([op |-> "truncate", pre |-> str, n |-> n], r.str,
                    UbStatus(r.ub), {})

StrReset ==
    LET r == str_reset(str)
    IN  StrDone([op |-> "reset", pre |-> str], r.str, UbStatus(r.ub), {})

StrSet ==
    \E i \in 0..(MaxCStr + 1), c \in Byte :
        LET r == str_set(str, i, c)
        IN  StrDone([op |-> "set", pre |-> str, i |-> i, c |-> c], r.str,
                    IF r.ret = "abort" THEN "abort" ELSE UbStatus(r.ub), {})

\* str_get(&str, i)
StrGet ==
    \E i \in 0..(MaxCStr + 1), j \in Byte :
        LET r == str_get(str, i, j)
        IN  StrDone([op |-> "get", pre |-> str, i |-> i, ret |-> r.ret], str,
                    IF r.abort THEN "abort" ELSE UbStatus(r.ub), {})

\* c = str_clone(&str); the clone is recorded in last.res
StrClone ==
    \E ok \in BOOLEAN, j \in Byte :
        LET r == str_clone(str, <<ok>>, j)
        IN  StrDone([op |-> "clone", pre |-> str, ok |-> ok, res |-> r.str],
                    str, UbStatus(r.ub), {ok})

\* str_append(&str, &src)
StrAppend ==
    \E srcnull \in BOOLEAN, src \in ArgStrs, ok \in BOOLEAN, zn \in BOOLEAN :
        LET r == str_append(str, srcnull, src, ok, zn)
            rs == str_reserve(str, str_len(src), ok, zn)
        IN  /\ srcnull => src = ZeroStr
            /\ StrDone([op |-> "append", pre |-> str, srcnull |-> srcnull,
                        src |-> src, res |-> r.str,
                        reserved |-> (rs.ret # 0 /\ (rs.ret = -1 \/ ok))],
                       r.str, UbStatus(r.ub), {ok})

\* str_append(&str, &str)
StrAppendSelf ==
    \E ok \in BOOLEAN, zn \in BOOLEAN :
        LET r == str_append_self(str, ok, zn)
        IN  StrDone([op |-> "append_self", pre |-> str, ok |-> ok,
                     res |-> r.str],
                    r.str, UbStatus(r.ub), {ok})

\* str = str_concat(&str, &b) and str = str_concat(&a, &str)
StrConcat ==
    \E x \in ArgStrs, first \in BOOLEAN, ok1 \in BOOLEAN, ok2 \in BOOLEAN :
        LET a == IF first THEN str ELSE x
            b == IF first THEN x ELSE str
            r == str_concat(a, b, <<ok1, ok2>>)
        IN  StrDone([op |-> "concat", pre |-> str, a |-> a, b |-> b,
                        ok |-> ok1 /\ ok2, res |-> r.str],
                       r.str, UbStatus(r.ub), {ok1, ok2})

\* str_contains(&str, substr)
StrContains ==
    \E sub \in CStrs, j \in Byte :
        LET r == str_contains(str, sub, j)
        IN  StrDone([op |-> "contains", pre |-> str, substr |-> sub, ret |-> r.ret],
                    str, UbStatus(r.ub), {})

\* str_equal(&str, &b)
StrEqual ==
    \E b \in ArgStrs, j \in Byte :
        LET r == str_equal(str, b, j)
        IN  StrDone([op |-> "equal", pre |-> str, b |-> b, ret |-> r.ret],
                    str, UbStatus(r.ub), {})

\* str_compare(&str, &b)
StrCompare ==
    \E b \in ArgStrs, j \in Byte :
        LET r == str_compare(str, b, j)
        IN  StrDone([op |-> "compare", pre |-> str, b |-> b, ret |-> r.ret],
                    str, UbStatus(r.ub), {})

StrNext ==
    \/ StrNew
    \/ StrFrom
    \/ StrFree
    \/ StrGrow
    \/ StrReserve
    \/ StrCompact
    \/ StrTruncate
    \/ StrReset
    \/ StrSet
    \/ StrGet
    \/ StrClone
    \/ StrAppend
    \/ StrAppendSelf
    \/ StrConcat
    \/ StrContains
    \/ StrEqual
    \/ StrCompare


(* ------------------------------ slice.h -------------------------------- *)

slc_initial_cap == 2

\* The heap the slices live in: a sequence of blocks, each with its cells
\* and whether it is still allocated.  A pointer is a block number and a
\* byte offset into it; block 0 is the null pointer.
NullPtr == [blk |-> 0, off |-> 0]

\* slice_t {void *buf; size_t esize; size_t len, cap; int8_t sub}
MkSlc(buf, esize, len, cap, sub) ==
    [buf |-> buf, esize |-> esize, len |-> len, cap |-> cap, sub |-> sub]

\* a zero-initialised slice_t
ZeroSlc == MkSlc(NullPtr, 0, 0, 0, 0)

\* the n bytes at p lie inside an allocated block of heap h
Valid(h, p, n) ==
    /\ p.blk \in 1..Len(h)
    /\ h[p.blk].live
    /\ p.off + n <= Len(h[p.blk].data)

\* the outcome of an operation on a slice: the slice (or the slice returned),
\* the heap, and how the call ended ("ok", "abort" after a PANIC, "ub")
SlcOut(s, h, end) == [s |-> s, heap |-> h, end |-> end]

\* _slc_make without the test of ilen > cap
_slc_make_unchecked(h, size, ilen, icap, ok) ==
    LET cap == IF icap # 0 THEN icap ELSE slc_initial_cap
    IN  IF ~ok \/ cap * size > STR_SIZE_MAX THEN SlcOut(ZeroSlc, h, "abort")
        ELSE SlcOut(MkSlc([blk |-> Len(h) + 1, off |-> 0], size, ilen, cap, 0),
                    Append(h, [data |-> Fill(cap * size, 0), live |-> TRUE]),
                    "ok")

_slc_make(h, size, ilen, icap, ok) ==
    LET cap == IF icap # 0 THEN icap ELSE slc_initial_cap
    IN  IF ilen > cap THEN SlcOut(ZeroSlc, h, "abort")
        \* calloc returns NULL when it finds no memory or cap * size overflows
        ELSE IF ~ok \/ cap * size > STR_SIZE_MAX THEN SlcOut(ZeroSlc, h, "abort")
        ELSE SlcOut(MkSlc([blk |-> Len(h) + 1, off |-> 0], size, ilen, cap, 0),
                    Append(h, [data |-> Fill(cap * size, 0), live |-> TRUE]),
                    "ok")

_slc_new(h, size, ok) == _slc_make(h, size, 0, 0, ok)

\* slc_free without the test of s->sub
slc_free_any(h, s) ==
    IF s.buf = NullPtr THEN SlcOut([s EXCEPT !.len = 0, !.cap = 0], h, "ok")
    ELSE IF ~Valid(h, s.buf, 0) \/ s.buf.off # 0 THEN SlcOut(s, h, "ub")
    ELSE SlcOut([s EXCEPT !.len = 0, !.cap = 0],
                [h EXCEPT ![s.buf.blk].live = FALSE], "ok")

\* free(s->buf) leaves s->buf pointing at the released block
slc_free(h, s) ==
    IF s.sub # 0 THEN SlcOut(s, h, "ok")
    ELSE IF s.buf = NullPtr THEN SlcOut([s EXCEPT !.len = 0, !.cap = 0], h, "ok")
    ELSE IF ~Valid(h, s.buf, 0) \/ s.buf.off # 0 THEN SlcOut(s, h, "ub")
    ELSE SlcOut([s EXCEPT !.len = 0, !.cap = 0],
                [h EXCEPT ![s.buf.blk].live = FALSE], "ok")

slc_len(s) == s.len

slc_cap(s) == s.cap

slc_buflen(s) == Wrap(s.esize * s.len)

slc_bufcap(s) == Wrap(s.esize * s.cap)

\* the cells of the block after realloc to n bytes
Resized(data, n) == [i \in 1..n |-> IF i <= Len(data) THEN data[i] ELSE Indet]

\* the zeroing loop of slc_grow on a block of cells:
\*   for (walk = (int8_t *)buf + oldcap; walk < (int8_t *)buf + cap; walk++) *walk = 0;
grow_zero(data, oldcap, cap) ==
    [i \in 1..Len(data) |-> IF i > oldcap /\ i <= cap THEN 0 ELSE data[i]]

\* slc_grow(s, cap).  ok: realloc finds memory; moved: it returns a new block
\* and releases the old one
slc_grow(h, s, cap, ok, moved) ==
    IF s.cap >= cap THEN SlcOut(s, h, "ok")
    ELSE IF s.sub # 0 THEN SlcOut(s, h, "ok")
    ELSE IF Wrap(cap * s.esize) < cap THEN SlcOut(s, h, "abort")
    ELSE LET n == Wrap(cap * s.esize)
             old == IF s.buf = NullPtr THEN <<>> ELSE h[s.buf.blk].data
         IN  IF s.buf # NullPtr /\ (~Valid(h, s.buf, 0) \/ s.buf.off # 0)
             THEN SlcOut(s, h, "ub")
             ELSE IF ~ok THEN SlcOut(s, h, "abort")
             ELSE LET data == grow_zero(Resized(old, n), s.cap, cap)
                      blk == [data |-> data, live |-> TRUE]
                  IN  IF moved \/ s.buf = NullPtr
                      THEN SlcOut([s EXCEPT !.buf = [blk |-> Len(h) + 1, off |-> 0],
                                            !.cap = cap],
                                  Append(IF s.buf = NullPtr THEN h
                                         ELSE [h EXCEPT ![s.buf.blk].live = FALSE],
                                         blk),
                                  "ok")
                      ELSE SlcOut([s EXCEPT !.cap = cap],
                                  [h EXCEPT ![s.buf.blk] = blk], "ok")

slc_ref(base) == [base EXCEPT !.sub = 1]

\* slc_reslice with the lower bound added to buf as a byte count
slc_reslice_bytes(h, base, lower, upper) ==
    LET ret == slc_ref(base)
    IN  IF lower >= slc_cap(base) \/ upper > slc_cap(base)
        THEN SlcOut(base, h, "abort")
        ELSE IF lower >= upper THEN SlcOut(base, h, "abort")
        ELSE SlcOut([ret EXCEPT !.buf.off = @ + lower,
                                !.len = upper - lower,
                                !.cap = @ - lower],
                    h, "ok")

\* slc_reslice that keeps the capacity of the base
slc_reslice_keepcap(h, base, lower, upper) ==
    LET ret == slc_ref(base)
    IN  IF lower >= slc_cap(base) \/ upper > slc_cap(base)
        THEN SlcOut(base, h, "abort")
        ELSE IF lower >= upper THEN SlcOut(base, h, "abort")
        ELSE SlcOut([ret EXCEPT !.buf.off = @ + lower * base.esize,
                                !.len = upper - lower],
                    h, "ok")

\* slc_reslice that admits the empty window lower = upper
slc_reslice_empty(h, base, lower, upper) ==
    LET ret == slc_ref(base)
    IN  IF lower >= slc_cap(base) \/ upper > slc_cap(base)
        THEN SlcOut(base, h, "abort")
        ELSE IF lower > upper THEN SlcOut(base, h, "abort")
        ELSE SlcOut([ret EXCEPT !.buf.off = @ + lower * base.esize,
                                !.len = upper - lower,
                                !.cap = @ - lower],
                    h, "ok")

slc_reslice(h, base, lower, upper) ==
    LET ret == slc_ref(base)
    IN  IF lower >= slc_cap(base) \/ upper > slc_cap(base)
        THEN SlcOut(base, h, "abort")
        ELSE IF lower >= upper THEN SlcOut(base, h, "abort")
        ELSE SlcOut([ret EXCEPT !.buf.off = @ + lower * base.esize,
                                !.len = upper - lower,
                                !.cap = @ - lower],
                    h, "ok")

\* the n bytes stored at p
Bytes(h, p, n) == [i \in 1..n |-> h[p.blk].data[p.off + i]]

\* the heap after the bytes bs are stored at p
StoreBytes(h, p, bs) ==
    [h EXCEPT ![p.blk].data =
        [i \in 1..Len(@) |->
            IF i > p.off /\ i <= p.off + Len(bs) THEN bs[i - p.off] ELSE @[i]]]

\* slc_copy with a forward byte loop in place of memmove: when dst starts
\* k bytes after src inside the bytes copied, the first k bytes repeat
slc_copy_forward(h, dst, src) ==
    IF dst.esize # src.esize THEN [heap |-> h, ret |-> 0, end |-> "abort"]
    ELSE LET count == IF slc_len(dst) <= slc_len(src) THEN slc_len(dst)
                                                       ELSE slc_len(src)
             n == count * src.esize
             k == dst.buf.off - src.buf.off
             rep == dst.buf.blk = src.buf.blk /\ k > 0 /\ k < n
         IN  IF n = 0 THEN [heap |-> h, ret |-> count, end |-> "ok"]
             ELSE IF ~Valid(h, dst.buf, n) \/ ~Valid(h, src.buf, n)
             THEN [heap |-> h, ret |-> count, end |-> "ub"]
             ELSE [heap |-> StoreBytes(h, dst.buf,
                                [i \in 1..n |->
                                    IF rep THEN Bytes(h, src.buf, n)[((i - 1) % k) + 1]
                                    ELSE Bytes(h, src.buf, n)[i]]),
                   ret |-> count, end |-> "ok"]

\* slc_copy: memmove of count * esize bytes
slc_copy(h, dst, src) ==
    IF dst.esize # src.esize THEN [heap |-> h, ret |-> 0, end |-> "abort"]
    ELSE LET count == IF slc_len(dst) <= slc_len(src) THEN slc_len(dst)
                                                       ELSE slc_len(src)
             n == count * src.esize
         IN  IF n = 0 THEN [heap |-> h, ret |-> count, end |-> "ok"]
             ELSE IF ~Valid(h, dst.buf, n) \/ ~Valid(h, src.buf, n)
             THEN [heap |-> h, ret |-> count, end |-> "ub"]
             ELSE [heap |-> StoreBytes(h, dst.buf, Bytes(h, src.buf, n)),
                   ret |-> count, end |-> "ok"]

(* ----------------------- the slice state machine ----------------------- *)

SlcNames == {"a", "b"}

\* the element sizes of the slices made: sizeof(int8_t) and sizeof(int16_t)
ESizes == {1, 2}

\* the arguments of slc_make: every length and capacity for the two integer
\* types, and one slice of a three-byte struct
MakeArgs ==
    [size : ESizes, ilen : 0..MaxSlcCap, icap : 0..MaxSlcCap]
        \cup {[size |-> 3, ilen |-> 0, icap |-> 1]}

\* the capacities asked of slc_grow: the small ones and half the range of
\* size_t
GrowCaps == (0..(MaxSlcCap + 1)) \cup {(STR_SIZE_MAX + 1) \div 2}

SlcInit ==
    /\ slc = [x \in SlcNames |-> ZeroSlc]
    /\ heap = <<>>
    /\ slcStatus = "ok"
    /\ slcLast = [op |-> "init"]
    /\ slcOps = 0
    /\ slcDiag = <<>>

\* the bookkeeping shared by the slice actions: x is the variable assigned
SlcDone(l, x, out) ==
    /\ slcStatus = "ok"
    /\ slcOps < MaxSlcOps
    /\ slcOps' = slcOps + 1
    /\ UNCHANGED <<strVars, bufVars, vectVars>>
    /\ slcLast' = l
    /\ slcStatus' = out.end
    /\ slcDiag' = Written(slcDiag, out.end, slc_panic)
    /\ slc' = IF out.end = "ok" THEN [slc EXCEPT ![x] = out.s] ELSE slc
    /\ heap' = IF out.end = "ok" THEN out.heap ELSE heap

\* a = slc_make(T, ilen, icap)
SlcMake ==
    \E x \in {"a"}, m \in MakeArgs, ok \in BOOLEAN :
        LET size == m.size
            ilen == m.ilen
            icap == m.icap
            out == _slc_make(heap, size, ilen, icap, ok)
        IN  /\ SlcDone([op |-> "make", x |-> x, size |-> size, ilen |-> ilen,
                        icap |-> icap, res |-> out.s], x, out)

\* slc_free(&x)
SlcFree ==
    \E x \in SlcNames :
        LET out == slc_free(heap, slc[x])
        IN  SlcDone([op |-> "free", x |-> x, pre |-> slc[x]], x, out)

\* slc_grow(&x, cap)
SlcGrow ==
    \E x \in SlcNames, cap \in GrowCaps, ok \in BOOLEAN, moved \in BOOLEAN :
        LET out == slc_grow(heap, slc[x], cap, ok, moved)
        IN  /\ SlcDone([op |-> "grow", x |-> x, pre |-> slc[x], h |-> heap,
                        cap |-> cap, res |-> out.s], x, out)

\* b = slc_ref(&x)
SlcRef ==
    \E x \in SlcNames, y \in {"b"} :
        SlcDone([op |-> "ref", x |-> x, y |-> y, pre |-> slc[x]], y,
                SlcOut(slc_ref(slc[x]), heap, "ok"))

\* b = slc_reslice(&x, lower, upper)
SlcReslice ==
    \E x \in SlcNames, y \in {"b"},
       lower \in 0..MaxSlcCap, upper \in 0..(MaxSlcCap + 1) :
        LET out == slc_reslice(heap, slc[x], lower, upper)
        IN  SlcDone([op |-> "reslice", x |-> x, y |-> y, pre |-> slc[x],
                     lower |-> lower, upper |-> upper, res |-> out.s], y, out)

\* slc_copy(&x, &y)
SlcCopy ==
    \E x \in SlcNames, y \in SlcNames :
        LET r == slc_copy(heap, slc[x], slc[y])
        IN  SlcDone([op |-> "copy", x |-> x, y |-> y, pre |-> slc, h |-> heap,
                     ret |-> r.ret], x,
                    SlcOut(slc[x], r.heap, r.end))

\* the caller stores a byte inside the capacity of x: ((int8_t *)x.buf)[off] = v
SlcStore ==
    \E x \in SlcNames, off \in 0..(2 * MaxSlcCap + 1), v \in Byte :
        /\ off < slc_bufcap(slc[x])
        /\ Valid(heap, slc[x].buf, off + 1)
        /\ SlcDone([op |-> "store", x |-> x, off |-> off, v |-> v], x,
                   SlcOut(slc[x],
                          StoreBytes(heap, [slc[x].buf EXCEPT !.off = @ + off], <<v>>),
                          "ok"))

SlcNext ==
    \/ SlcMake
    \/ SlcFree
    \/ SlcGrow
    \/ SlcRef
    \/ SlcReslice
    \/ SlcCopy
    \/ SlcStore

(* ------------------------------- buf.h --------------------------------- *)

\* the pointer variable of a buffer and the cells of the block it points to;
\* p is NULL, PTR (an allocated block) or FREED (a released block)
FREED == "freed"
MkBuf(p, data) == [p |-> p, data |-> data]

\* BUF_NEW(char, buf): malloc(sizeof(char) * 2), unchecked, and len 0, cap 2
BUF_NEW(ok) ==
    [buf |-> IF ok THEN MkBuf(PTR, Fill(2, Indet)) ELSE MkBuf(NULL, <<>>),
     len |-> 0, cap |-> 2]

\* BUF_ATTACH(bufname, char, buf, len, cap): the three local variables
BUF_ATTACH(b, len, cap) == [buf |-> b, len |-> len, cap |-> cap]

\* a BUF_DETACH that stores the capacity in the holder's length
BUF_DETACH_caplen(blk, len, cap) == [blk |-> blk, len |-> cap, cap |-> cap]

\* BUF_DETACH(bufname, buf, len, cap): the holder's three fields
BUF_DETACH(blk, len, cap) == [blk |-> blk, len |-> len, cap |-> cap]

BUF_LEN(len) == len

BUF_CAP(cap) == cap

\* the condition under which BUF_PUSH reallocates
BUF_PUSH_full(len, cap) == len = cap

\* a BUF_PUSH that reallocates to two elements more
BUF_PUSH_newcap_plus2(cap) == Wrap(cap + 2)

\* the capacity BUF_PUSH reallocates to
BUF_PUSH_newcap(cap) == Wrap(cap * 2)

\* bufname[bufname_len] = elem; bufname_len++
BUF_PUSH_store(b, len, elem) ==
    IF b.p # PTR \/ len >= Len(b.data)
    THEN [buf |-> b, len |-> len, ub |-> TRUE]
    ELSE [buf |-> [b EXCEPT !.data[len + 1] = elem], len |-> Wrap(len + 1),
          ub |-> FALSE]

\* BUF_FREE(buf): free(buf) leaves buf pointing at the released block
BUF_FREE(b) ==
    [buf |-> IF b.p = NULL THEN b ELSE MkBuf(FREED, <<>>), len |-> 0, cap |-> 0,
     ub |-> b.p = FREED]

(* ----------------------- the buffer state machine ---------------------- *)

\* what the caller holds before BUF_ATTACH: nothing (a zeroed triple), or a
\* malloc'd block of two elements of which the first len are in use and
\* hold 1, 2
AttachArgs ==
    {[len |-> 0, cap |-> 0, data |-> <<>>]}
        \cup {[len |-> n, cap |-> 2,
                data |-> [i \in 1..2 |-> IF i <= n THEN i ELSE Indet]] :
                 n \in 0..2}

\* the attach bookkeeping of a pushed element
Pushed(a, elem) ==
    IF a.on THEN [a EXCEPT !.elems = Append(@, elem), !.synced = FALSE] ELSE a

BufInit ==
    /\ bufBlk = 0
    /\ holder = [blk |-> 0, len |-> 0, cap |-> 0]
    /\ att = [on |-> FALSE, triple |-> [blk |-> 0, len |-> 0, cap |-> 0],
              elems |-> <<>>, detached |-> FALSE, synced |-> FALSE]
    /\ bufname = MkBuf(NULL, <<>>)
    /\ bufname_len = 0
    /\ bufname_cap = 0
    /\ bufPc = "new"
    /\ bufElem = 0
    /\ npush = 0
    /\ retries = 0

\* BUF_NEW(char, bufname)
BufNew ==
    \E ok \in BOOLEAN :
        LET r == BUF_NEW(ok)
        IN  /\ bufPc = "new"
            /\ bufPc' = "idle"
            /\ bufname' = r.buf
            /\ bufname_len' = r.len
            /\ bufname_cap' = r.cap
            /\ bufBlk' = IF ok THEN 1 ELSE 0
            /\ UNCHANGED <<bufElem, npush, retries, holder, att, strVars, slcVars,
                           vectVars>>

\* BUF_ATTACH(bufname, char, h.buf, h.len, h.cap) on what the caller holds
BufAttach ==
    \E h \in AttachArgs :
        LET r == BUF_ATTACH(MkBuf(IF h.cap = 0 THEN NULL ELSE PTR, h.data),
                            h.len, h.cap)
            hd == [blk |-> IF h.cap = 0 THEN 0 ELSE 1, len |-> h.len, cap |-> h.cap]
        IN  /\ bufPc = "new"
            /\ Len(h.data) = h.cap
            /\ bufPc' = "idle"
            /\ bufname' = r.buf
            /\ bufname_len' = r.len
            /\ bufname_cap' = r.cap
            /\ bufBlk' = hd.blk
            /\ holder' = hd
            /\ att' = [on |-> TRUE, triple |-> hd, elems |-> SubSeq(h.data, 1, h.len),
                       detached |-> FALSE, synced |-> TRUE]
            /\ UNCHANGED <<bufElem, npush, retries, strVars, slcVars, vectVars>>

\* BUF_DETACH(bufname, h.buf, h.len, h.cap)
BufDetach ==
    /\ bufPc = "idle"
    /\ att.on
    /\ holder' = BUF_DETACH(IF bufname.p = NULL THEN 0 ELSE bufBlk,
                            bufname_len, bufname_cap)
    /\ att' = [att EXCEPT !.detached = TRUE, !.synced = TRUE]
    /\ UNCHANGED <<bufname, bufname_len, bufname_cap, bufPc, bufElem, npush,
                   retries, bufBlk, strVars, slcVars, vectVars>>

\* BUF_PUSH(bufname, elem) up to the retry loop: with room left the element is
\* stored at once, else the caller enters the loop
BufPush ==
    \E elem \in Byte :
        /\ bufPc = "idle"
        /\ npush < (IF att.on THEN MaxAttPush ELSE MaxPush)
        /\ IF BUF_PUSH_full(bufname_len, bufname_cap)
           THEN /\ bufPc' = "realloc"
                /\ bufElem' = elem
                /\ UNCHANGED <<bufname, bufname_len, bufname_cap, npush, att>>
           ELSE LET r == BUF_PUSH_store(bufname, bufname_len, elem)
                IN  /\ bufPc' = IF r.ub THEN "ub" ELSE "idle"
                    /\ bufname' = r.buf
                    /\ bufname_len' = r.len
                    /\ npush' = IF r.ub THEN npush ELSE npush + 1
                    /\ att' = IF r.ub THEN att ELSE Pushed(att, elem)
                    /\ UNCHANGED <<bufname_cap, bufElem>>
        /\ UNCHANGED <<retries, bufBlk, holder, strVars, slcVars, vectVars>>

\* a BUF_PUSH that gives up when realloc returns NULL and stores nothing
BufRetry_giveup ==
    /\ bufPc = "realloc"
    /\ retries < MaxRetry
    /\ retries' = 0
    /\ bufPc' = IF bufname.p = FREED THEN "ub" ELSE "idle"
    /\ UNCHANGED <<bufname, bufname_len, bufname_cap, bufElem, npush, bufBlk,
                   holder, att, strVars, slcVars, vectVars>>

\* one iteration of while (!tmp) tmp = realloc(bufname, sizeof(*bufname) * bufname_cap * 2)
\* in which realloc returns NULL
BufRetry ==
    /\ bufPc = "realloc"
    /\ retries < MaxRetry
    /\ retries' = retries + 1
    /\ bufPc' = IF bufname.p = FREED THEN "ub" ELSE "realloc"
    /\ UNCHANGED <<bufname, bufname_len, bufname_cap, bufElem, npush, bufBlk,
                   holder, att, strVars, slcVars, vectVars>>

\* the iteration in which realloc succeeds, and the rest of BUF_PUSH
\* moved: realloc returns another block and releases the old one
BufRealloc ==
    /\ bufPc = "realloc"
    /\ \E moved \in BOOLEAN :
        LET cap == BUF_PUSH_newcap(bufname_cap)
            b == MkBuf(PTR, Resized(bufname.data, cap))
            r == BUF_PUSH_store(b, bufname_len, bufElem)
        IN  IF bufname.p = FREED
            THEN /\ bufPc' = "ub"
                 /\ UNCHANGED <<bufname, bufname_len, bufname_cap, npush, bufBlk, att>>
            ELSE /\ bufPc' = IF r.ub THEN "ub" ELSE "idle"
                 /\ bufname' = r.buf
                 /\ bufname_len' = r.len
                 /\ bufname_cap' = cap
                 /\ bufBlk' = IF moved \/ bufname.p = NULL THEN bufBlk + 1 ELSE bufBlk
                 /\ npush' = IF r.ub THEN npush ELSE npush + 1
                 /\ att' = IF r.ub THEN att ELSE Pushed(att, bufElem)
    /\ retries' = 0
    /\ UNCHANGED <<bufElem, holder, strVars, slcVars, vectVars>>

\* BUF_FREE(bufname)
BufFree ==
    LET r == BUF_FREE(bufname)
    IN  /\ bufPc = "idle"
        /\ bufPc' = IF r.ub THEN "ub" ELSE "idle"
        /\ bufname' = r.buf
        /\ bufname_len' = r.len
        /\ bufname_cap' = r.cap
        /\ att' = IF att.on THEN [att EXCEPT !.synced = FALSE] ELSE att
        /\ UNCHANGED <<bufElem, npush, retries, bufBlk, holder, strVars, slcVars,
                       vectVars>>

BufNext ==
    \/ BufNew
    \/ BufAttach
    \/ BufDetach
    \/ BufPush
    \/ BufRetry
    \/ BufRealloc
    \/ BufFree

(* ------------------------------- vect.h -------------------------------- *)

\* struct _vect_t {void *buf; size_t len, cap} and the cells of its block
MkVect(b, len, cap, data) == [buf |-> b, len |-> len, cap |-> cap, data |-> data]

\* the sizes of the element types declared: sizeof(char) and sizeof(int16_t)
VectSizes == {1, 2}

\* the values of a type of ts bytes, as their object representations
Vals(ts) == [1..ts -> Byte]

\* tname_vect_init()
vect_init == MkVect(NULL, 0, 0, <<>>)

\* a _vect_resize that grows by two elements when new is zero
_vect_resize_plus2(v, ts, new, ok) ==
    LET newcap == IF new = 0 THEN Wrap(v.cap + 2) ELSE new
    IN  IF newcap <= v.cap THEN [v |-> v, ret |-> 1, ub |-> FALSE]
        ELSE IF v.buf = FREED THEN [v |-> v, ret |-> 0, ub |-> TRUE]
        ELSE IF ~ok THEN [v |-> v, ret |-> 0, ub |-> FALSE]
        ELSE [v |-> [v EXCEPT !.buf = PTR, !.cap = newcap,
                              !.data = Resized(@, Wrap(ts * newcap))],
              ret |-> 1, ub |-> FALSE]

\* _vect_resize(v, tsiz, new); ok: realloc finds memory
_vect_resize(v, ts, new, ok) ==
    LET newcap == IF new = 0 THEN Wrap((v.cap + 1) * 2) ELSE new
    IN  IF newcap <= v.cap THEN [v |-> v, ret |-> 1, ub |-> FALSE]
        ELSE IF v.buf = FREED THEN [v |-> v, ret |-> 0, ub |-> TRUE]
        ELSE IF ~ok THEN [v |-> v, ret |-> 0, ub |-> FALSE]
        ELSE [v |-> [v EXCEPT !.buf = PTR, !.cap = newcap,
                              !.data = Resized(@, Wrap(ts * newcap))],
              ret |-> 1, ub |-> FALSE]

\* memcpy(buf + off, val, ts)
vect_memcpy(v, off, val) ==
    [v EXCEPT !.data = [i \in 1..Len(@) |->
        IF i > off /\ i <= off + Len(val) THEN val[i - off] ELSE @[i]]]

\* the ts bytes at buf + off lie inside the block
vect_inside(v, off, ts) == v.buf = PTR /\ off + ts <= Len(v.data)

\* _vect_append(v, t, ts)
_vect_append(v, t, ts, ok) ==
    LET r == IF v.len + 1 >= v.cap THEN _vect_resize(v, ts, 0, ok)
                                   ELSE [v |-> v, ret |-> 1, ub |-> FALSE]
        off == v.len * ts
    IN  IF r.ub \/ r.ret = 0 THEN r
        ELSE IF ~vect_inside(r.v, off, ts) THEN [v |-> v, ret |-> 0, ub |-> TRUE]
        ELSE [v |-> vect_memcpy([r.v EXCEPT !.len = @ + 1], off, t),
              ret |-> 1, ub |-> FALSE]

\* a _vect_get that lets ind = len through
_vect_get_gt(v, ind, ts) ==
    IF ind > v.len THEN [p |-> NULL, off |-> 0] ELSE [p |-> v.buf, off |-> ind * ts]

\* _vect_get(v, ind, ts): NULL, or buf + off, the address of the element
_vect_get(v, ind, ts) ==
    IF ind >= v.len THEN [p |-> NULL, off |-> 0] ELSE [p |-> v.buf, off |-> ind * ts]

\* *t of tname_vect_get: the ts bytes at offset off
vect_load(v, off, ts) == [i \in 1..ts |-> v.data[off + i]]

\* a _vect_set that stores at buf + ind
_vect_set_bytes(v, ind, ts, val) ==
    IF ind >= v.len THEN [v |-> v, ret |-> 0, ub |-> FALSE]
    ELSE IF ~vect_inside(v, ind, ts) THEN [v |-> v, ret |-> 0, ub |-> TRUE]
    ELSE [v |-> vect_memcpy(v, ind, val), ret |-> 1, ub |-> FALSE]

\* _vect_set(v, ind, ts, val)
_vect_set(v, ind, ts, val) ==
    IF ind >= v.len THEN [v |-> v, ret |-> 0, ub |-> FALSE]
    ELSE IF ~vect_inside(v, ind * ts, ts) THEN [v |-> v, ret |-> 0, ub |-> TRUE]
    ELSE [v |-> vect_memcpy(v, ind * ts, val), ret |-> 1, ub |-> FALSE]

\* _vect_clear(v)
_vect_clear(v) == [v EXCEPT !.len = 0]

\* the offset in the block that _vect_contains compares val with for index i
vect_contains_off(i, ts) == i

\* _vect_contains(v, ts, val): memcmp(val, buf + i, ts) == 0 for some i < len
_vect_contains(v, ts, val) ==
    IF \E i \in 0..(v.len - 1) :
            /\ vect_inside(v, vect_contains_off(i, ts), ts)
            /\ vect_load(v, vect_contains_off(i, ts), ts) = val
    THEN 1 ELSE 0

\* tname_vect_destroy: free(buf) leaves buf pointing at the released block
vect_destroy(v) ==
    [v |-> [v EXCEPT !.buf = IF @ = NULL THEN NULL ELSE FREED, !.len = 0,
                     !.cap = 0, !.data = <<>>],
     ub |-> v.buf = FREED]

(* ----------------------- the vector state machine ---------------------- *)

VectInit ==
    /\ vect = vect_init
    /\ tsiz = 0
    /\ shadow = <<>>
    /\ vectStatus = "ok"
    /\ vectLast = [op |-> "none"]
    /\ vectOps = 0
    /\ vectDiag = <<>>

\* the bookkeeping shared by the vector actions
VectDone(l, new, sh, st) ==
    /\ vectStatus = "ok"
    /\ tsiz # 0
    /\ vectOps < MaxVectOps
    /\ vectOps' = vectOps + 1
    /\ vectLast' = l
    /\ vectStatus' = st
    /\ vectDiag' = Written(vectDiag, st, vect_panic)
    /\ vect' = IF st = "ok" THEN new ELSE vect
    /\ shadow' = IF st = "ok" THEN sh ELSE shadow
    /\ UNCHANGED <<tsiz, strVars, slcVars, bufVars>>

\* how a call of a tname_vect_* wrapper ends: it panics when the internal
\* function returned zero
VectEnd(r) == IF r.ub THEN "ub" ELSE IF r.ret = 0 THEN "abort" ELSE "ok"

\* vect_declare(type, tname); tname v = vect_init(tname)
VectDeclare ==
    \E ts \in VectSizes :
        /\ tsiz = 0
        /\ tsiz' = ts
        /\ vect' = vect_init
        /\ UNCHANGED <<shadow, vectStatus, vectLast, vectOps, vectDiag, strVars,
                       slcVars, bufVars>>

\* vect_append(&v, t)
VectAppend ==
    \E t \in Vals(tsiz), ok \in BOOLEAN :
        LET r == _vect_append(vect, t, tsiz, ok)
        IN  VectDone([op |-> "append"], r.v, Append(shadow, t), VectEnd(r))

\* vect_get(&v, ind)
VectGet ==
    \E ind \in 0..MaxVectOps :
        LET t == _vect_get(vect, ind, tsiz)
        IN  IF t.p = NULL
            THEN VectDone([op |-> "get", ind |-> ind], vect, shadow, "abort")
            ELSE IF ~vect_inside(vect, t.off, tsiz)
            THEN VectDone([op |-> "get", ind |-> ind], vect, shadow, "ub")
            ELSE VectDone([op |-> "get", ind |-> ind,
                           ret |-> vect_load(vect, t.off, tsiz)],
                          vect, shadow, "ok")

\* vect_set(&v, ind, val)
VectSet ==
    \E ind \in 0..MaxVectOps, val \in Vals(tsiz) :
        LET r == _vect_set(vect, ind, tsiz, val)
        IN  VectDone([op |-> "set", ind |-> ind, val |-> val], r.v,
                     IF ind < Len(shadow) THEN [shadow EXCEPT ![ind + 1] = val]
                                          ELSE shadow,
                     VectEnd(r))

\* vect_clear(&v)
VectClear ==
    VectDone([op |-> "clear"], _vect_clear(vect), <<>>, "ok")

\* vect_contains(&v, val)
VectContains ==
    \E val \in Vals(tsiz) :
        VectDone([op |-> "contains", val |-> val,
                  ret |-> _vect_contains(vect, tsiz, val)],
                 vect, shadow, "ok")

\* vect_destroy(&v)
VectDestroy ==
    LET r == vect_destroy(vect)
    IN  VectDone([op |-> "destroy"], r.v, <<>>, IF r.ub THEN "ub" ELSE "ok")

VectNext ==
    \/ VectDeclare
    \/ VectAppend
    \/ VectGet
    \/ VectSet
    \/ VectClear
    \/ VectContains
    \/ VectDestroy

(* ------------------------ claims about slice.h ------------------------ *)

\* the address of element i of the slice s
ElemAddr(s, i) == [s.buf EXCEPT !.off = @ + i * s.esize]

\* the storage of the whole capacity of s is allocated
Live(h, s) == s.esize > 0 /\ Valid(h, s.buf, s.cap * s.esize)

\* C2: slc_grow(s, k) on a non-subview slice s of any element size: with
\* k <= cap(s) nothing changes; with k > cap(s) the capacity becomes k, the
\* length is unchanged and every byte of every new element cell [old cap, k)
\* is zero.
C2_GrowZeroesNewCells ==
    (slcLast.op = "grow" /\ slcStatus = "ok" /\ slcLast.pre.sub = 0) =>
        LET pre == slcLast.pre
            res == slc[slcLast.x]
        IN  IF slcLast.cap <= pre.cap
            THEN res = pre /\ heap = slcLast.h
            ELSE /\ res.cap = slcLast.cap
                 /\ res.len = pre.len
                 /\ Live(heap, res)
                 /\ \A off \in (pre.cap * res.esize)..(res.cap * res.esize - 1) :
                        heap[res.buf.blk].data[res.buf.off + off + 1] = 0

\* C3: for a slice base (owner or subview) whose storage is allocated and
\* bounds lo < hi <= cap(base), slc_reslice(base, lo, hi) returns a subview
\* with len = hi - lo, cap = cap(base) - lo, the element size of base and the
\* subview flag set, whose element i is the storage cell of element lo + i
\* of base; base and the storage are unchanged.
C3_ResliceWindow ==
    (/\ slcLast.op = "reslice"
     /\ slcLast.lower < slcLast.upper
     /\ slcLast.upper <= slcLast.pre.cap
     /\ Live(heap, slcLast.pre)) =>
        LET base == slcLast.pre
            res == slcLast.res
        IN  /\ slcStatus = "ok"
            /\ slc[slcLast.y] = res
            /\ res.len = slcLast.upper - slcLast.lower
            /\ res.cap = base.cap - slcLast.lower
            /\ res.esize = base.esize
            /\ res.sub = 1
            /\ Live(heap, res)
            /\ \A i \in 0..(res.cap - 1) :
                    ElemAddr(res, i) = ElemAddr(base, slcLast.lower + i)
            /\ slcLast.x # slcLast.y => slc[slcLast.x] = base

\* a subview of a subview of 2-byte elements was taken at a non-zero lower
\* bound
C3_Witness ==
    /\ slcLast.op = "reslice"
    /\ slcStatus = "ok"
    /\ slcLast.pre.sub = 1
    /\ slcLast.pre.esize = 2
    /\ slcLast.lower > 0
    /\ slcLast.pre.buf.off > 0
    /\ Live(heap, slcLast.pre)

(* ------------------------- claims about buf.h -------------------------- *)

\* the smallest power of two >= n
Pow2Ceil(n) ==
    CHOOSE p \in {2 ^ k : k \in 0..SIZE_BITS} :
        p >= n /\ \A k \in 0..SIZE_BITS : 2 ^ k >= n => p <= 2 ^ k

\* the buffer was created by BUF_NEW, no BUF_PUSH is in progress and no
\* BUF_FREE has set its capacity to zero
BufFresh == bufPc = "idle" /\ BUF_CAP(bufname_cap) # 0 /\ ~att.on

\* C4, as stated: after n BUF_PUSH calls on a buffer freshly created by
\* BUF_NEW, BUF_LEN = n and BUF_CAP is the smallest power of two
\* >= max(2, n + 1).
C4_PushCapAsStated ==
    BufFresh =>
        /\ BUF_LEN(bufname_len) = npush
        /\ BUF_CAP(bufname_cap) = Pow2Ceil(Max(2, npush + 1))

\* C4, amended: after n BUF_PUSH calls on a buffer freshly created by
\* BUF_NEW, BUF_LEN = n and BUF_CAP is the smallest power of two
\* >= max(2, n): the capacity doubles only when a push finds len = cap.
C4_PushCapDoubling ==
    BufFresh =>
        /\ BUF_LEN(bufname_len) = npush
        /\ BUF_CAP(bufname_cap) = Pow2Ceil(Max(2, npush))

\* five elements were pushed, the block was reallocated twice
C4_Witness ==
    /\ BufFresh
    /\ bufname.p = PTR
    /\ npush = 5
    /\ BUF_CAP(bufname_cap) = 8
    /\ Len(bufname.data) = 8

(* ------------------------- claims about vect.h ------------------------- *)

\* C5: after any sequence of vect_append, vect_set and vect_clear from
\* vect_init, len <= cap, len is the number of appends since the last clear,
\* and vect_get(v, i) is the value stored last at index i by append or set,
\* for every i < len.
C5_VectLenGet ==
    vectStatus = "ok" =>
        /\ vect.len <= vect.cap
        /\ vect.len = Len(shadow)
        /\ \A i \in 0..(vect.len - 1) :
                LET t == _vect_get(vect, i, tsiz)
                IN  /\ t.p = PTR
                    /\ vect_inside(vect, t.off, tsiz)
                    /\ vect_load(vect, t.off, tsiz) = shadow[i + 1]

\* an element of a vector of two 2-byte elements was set, and the two
\* elements differ
C5_Witness ==
    /\ vectStatus = "ok"
    /\ vectLast.op = "set"
    /\ tsiz = 2
    /\ vect.len = 2
    /\ shadow[1] # shadow[2]
    /\ shadow[2][1] # 0

\* C6: vect_contains(v, val) is true iff the sizeof(T) bytes of some element
\* i < len, at buf + i * sizeof(T), equal those of val.
C6_ContainsIffElement ==
    (vectLast.op = "contains" /\ vectStatus = "ok") =>
        (vectLast.ret = 1 <=>
            \E i \in 0..(vect.len - 1) :
                vect_load(vect, i * tsiz, tsiz) = vectLast.val)

(* ------------------------- claims about str.h -------------------------- *)

\* the bytes of s at offsets [from, from + n) are the first n bytes of x
SameBytes(s, from, x, n) ==
    \A i \in 1..n : i <= Len(x.mem) /\ from + i <= Len(s.mem)
                    /\ s.mem[from + i] = x.mem[i]

\* a null byte sits at offset str_len(s) inside the block
Terminated(s) == InBlock(s, s.len) /\ s.mem[s.len + 1] = 0

\* C1: as long as no allocation has failed, the string has len <= cap and,
\* when its capacity is positive, a null byte at offset len.
C1_LenCapTerminator ==
    (status = "ok" /\ ~oom) =>
        /\ str_len(str) <= str_cap(str)
        /\ str_cap(str) > 0 => Terminated(str)

\* C7: with no allocation failure, str_concat(a, b) has length len(a) + len(b),
\* starts with the bytes of a, continues with the bytes of b and ends with a
\* null byte.
C7_ConcatLenContent ==
    (last.op = "concat" /\ ~oom) =>
        /\ status = "ok"
        /\ last.res.len = last.a.len + last.b.len
        /\ SameBytes(last.res, 0, last.a, last.a.len)
        /\ SameBytes(last.res, last.a.len, last.b, last.b.len)
        /\ Terminated(last.res)

\* C8: str_append(dst, src) whose reservation does not fail makes
\* len(dst) grow by len(src), keeps the old bytes of dst, puts the bytes of
\* src behind them and a null byte behind those.
C8_AppendLenContent ==
    (last.op = "append" /\ ~last.srcnull /\ last.reserved /\ ~oom) =>
        /\ status = "ok"
        /\ last.res.len = last.pre.len + last.src.len
        /\ SameBytes(last.res, 0, last.pre, last.pre.len)
        /\ SameBytes(last.res, last.pre.len, last.src, last.src.len)
        /\ Terminated(last.res)

\* substr occurs in the len bytes of s as a contiguous run
Occurs(substr, s) ==
    \E p \in 0..(s.len - Len(substr)) :
        \A i \in 1..Len(substr) : s.mem[p + i] = substr[i]

\* C9: str_contains(str, needle) returns true exactly when needle occurs in
\* the len bytes of str as a contiguous run.
C9_ContainsIffOccurs ==
    (last.op = "contains" /\ status = "ok" /\ ~oom) =>
        (last.ret = 1 <=> Occurs(last.substr, last.pre))

\* C10: a str_grow (or a str_reserve that calls it) whose realloc fails
\* returns 0.
C10_GrowFailureReturnsZero ==
    (last.op \in {"grow", "reserve"} /\ last.failed) => last.ret = 0

(* --------------------------- specifications ---------------------------- *)

\* C11: str_grow never lets the capacity wrap: whenever cap + delta (plus the
\* zero-start byte when cap = 0), or 2 * cap when delta = 0, would exceed
\* STR_SIZE_MAX, the new capacity is STR_SIZE_MAX and str_grow returns 0; the
\* stored capacity is never smaller after str_grow than before.
C11_GrowNeverWraps ==
    (last.op = "grow" /\ status = "ok" /\ ~oom) =>
        LET cap == last.pre.cap
            want == IF last.delta = 0 THEN 2 * cap
                    ELSE cap + last.delta + (IF cap = 0 THEN 1 ELSE 0)
        IN  /\ want > STR_SIZE_MAX => (str.cap = STR_SIZE_MAX /\ last.ret = 0)
            /\ str.cap >= cap

\* C12: str_grow(str, 0) on a string of capacity 0 (zero-initialised or
\* freed) leaves it with a reported capacity str_cap(str) of at least the
\* initial constant less the terminator, and so greater than 0.
C12_GrowZeroStart ==
    (last.op = "grow" /\ status = "ok" /\ ~oom
        /\ last.delta = 0 /\ last.pre.cap = 0) =>
        /\ str_cap(str) >= STR_INITIAL_BUFSIZ - 1
        /\ str_cap(str) > 0

\* s is a valid empty string: its length is 0 and, if it reports a capacity,
\* it has a buffer with the terminator at offset 0
ValidEmpty(s) == str_len(s) = 0 /\ (str_cap(s) > 0 => Terminated(s))

\* C13: if the allocation of str_new fails, in str_new itself or in
\* str_from(cstr), the call returns a valid empty string of length 0 and
\* writes through no null pointer.
C13_FromAllocFailure ==
    (last.op \in {"new", "from"} /\ ~last.ok) =>
        /\ status = "ok"
        /\ ValidEmpty(str)

\* C14: every string operation applied to a zero-initialised string (null
\* pointers, capacity 0) completes without dereferencing the null buffer
\* pointer.
C14_ZeroInitSafe ==
    (/\ last.op \in {"grow", "reserve", "compact", "truncate", "reset",
                      "concat", "append", "equal", "compare", "contains",
                      "free"}
     /\ last.pre = ZeroStr
     /\ ~oom) =>
        status = "ok"

\* C15: str_get and str_set abort for every index i >= str_len and succeed
\* for every i < str_len, so str_set can never overwrite the terminator.
C15_GetSetBounds ==
    (last.op \in {"get", "set"}) =>
        /\ (last.i >= str_len(last.pre)) <=> (status = "abort")
        /\ (last.op = "set" /\ Terminated(last.pre)) => Terminated(str)

\* C16: for every reachable string, also one modified by str_set, the clone
\* c = str_clone(str) has the length and the bytes of str (a zero-length str
\* gives the zero-initialised descriptor) and leaves str as it was.
C16_CloneEqual ==
    (last.op = "clone" /\ ~oom /\ Terminated(last.pre)) =>
        /\ status = "ok"
        /\ str = last.pre
        /\ str_len(last.res) = str_len(str)
        /\ SameBytes(last.res, 0, str, str_len(str))
        /\ str_len(str) = 0 => last.res = ZeroStr

\* C17: str_reserve(str, delta) returns -1 and changes nothing exactly when
\* str_cap - str_len >= delta, and otherwise returns the 0 or 1 of one
\* str_grow(str, delta); after a return of -1 or 1 the string has
\* str_cap - str_len >= delta with its length and content unchanged.
C17_ReserveOutcomes ==
    (last.op = "reserve" /\ ~oom /\ str_len(last.pre) <= str_cap(last.pre)) =>
        LET pre == last.pre
            free == str_cap(pre) - str_len(pre)
        IN  /\ last.ret \in {-1, 0, 1}
            /\ (last.ret = -1) <=> (free >= last.delta)
            /\ last.ret = -1 => str = pre
            /\ last.ret \in {-1, 1} =>
                   /\ str_cap(str) - str_len(str) >= last.delta
                   /\ str_len(str) = str_len(pre)
                   /\ SameBytes(str, 0, pre, str_len(pre))

C19_SubviewNoOps ==
    [][slcOps' # slcOps =>
        LET l == slcLast'
            s == slc[l.x]
        IN  /\ (l.op \in {"free", "grow"} /\ s.sub # 0) =>
                   (slc' = slc /\ heap' = heap /\ slcStatus' = "ok")
            /\ (l.op = "free" /\ s.sub = 0 /\ slcStatus' = "ok") =>
                   /\ slc' = [slc EXCEPT ![l.x].len = 0, ![l.x].cap = 0]
                   /\ s.buf # NullPtr =>
                          /\ heap[s.buf.blk].live
                          /\ heap' = [heap EXCEPT ![s.buf.blk].live = FALSE]
            /\ \A k \in 1..Len(heap) :
                   (heap[k].live /\ ~heap'[k].live) =>
                       (l.op \in {"free", "grow"} /\ s.sub = 0 /\ s.buf.blk = k)
    ]_slcVars

\* slc_free on a subview whose base has been freed before
C19_Witness ==
    /\ slcLast.op = "free" /\ slcStatus = "ok"
    /\ slcLast.pre.sub # 0 /\ slcLast.pre.cap > 0
    /\ slcLast.pre.buf.blk \in 1..Len(heap)
    /\ ~heap[slcLast.pre.buf.blk].live
    /\ slc[slcLast.x] = slcLast.pre

\* C20: for dst and src of equal element size whose first count elements
\* are allocated storage, slc_copy(dst, src) returns
\* count = min(len(dst), len(src)); afterwards the first count elements of
\* dst hold what the first count elements of src held before the call,
\* also when the two windows overlap; no other cell of the heap, no block
\* and no field of a slice changes.  With differing element sizes the call
\* aborts.
C20_CopyMinLenOverlap ==
    (slcLast.op = "copy") =>
        LET h == slcLast.h
            dst == slcLast.pre[slcLast.x]
            src == slcLast.pre[slcLast.y]
            count == Min(slc_len(dst), slc_len(src))
            n == count * src.esize
        IN  /\ dst.esize # src.esize => slcStatus = "abort"
            /\ (dst.esize = src.esize /\ Valid(h, dst.buf, n) /\ Valid(h, src.buf, n)) =>
                   /\ slcStatus = "ok"
                   /\ slcLast.ret = count
                   /\ \A i \in 0..(count - 1) :
                          Bytes(heap, ElemAddr(dst, i), dst.esize)
                              = Bytes(h, ElemAddr(src, i), src.esize)
                   /\ Len(heap) = Len(h)
                   /\ \A b \in 1..Len(h) :
                          /\ heap[b].live = h[b].live
                          /\ Len(heap[b].data) = Len(h[b].data)
                          /\ \A c \in 1..Len(h[b].data) :
                                 (b # dst.buf.blk \/ c <= dst.buf.off
                                     \/ c > dst.buf.off + n) =>
                                     heap[b].data[c] = h[b].data[c]
            /\ slc = slcLast.pre
            /\ slcStatus # "ok" => heap = h

\* a copy of two elements or more into a window that starts one element
\* after the source window, the first two source elements differing
C20_Witness ==
    /\ slcLast.op = "copy" /\ slcStatus = "ok" /\ slcLast.ret >= 2
    /\ LET dst == slcLast.pre[slcLast.x]
           src == slcLast.pre[slcLast.y]
       IN  /\ dst.buf = ElemAddr(src, 1)
           /\ Bytes(slcLast.h, ElemAddr(src, 0), src.esize)
                  # Bytes(slcLast.h, ElemAddr(src, 1), src.esize)
           /\ Bytes(heap, ElemAddr(dst, 1), dst.esize)
                  = Bytes(slcLast.h, ElemAddr(src, 1), src.esize)

\* C21: whenever the product of the requested capacity and the element
\* size does not fit in size_t, slc_grow on a non-subview slice aborts; it
\* never records the new capacity over a block of the wrapped byte count.
C21_GrowOverflowAborts ==
    (/\ slcLast.op = "grow"
     /\ slcLast.pre.sub = 0
     /\ slcLast.cap > slcLast.pre.cap
     /\ slcLast.cap * slcLast.pre.esize > STR_SIZE_MAX) =>
        slcStatus = "abort"

\* C22: a zero-initialised slice_t is a valid empty slice: slc_len and
\* slc_cap are 0, slc_free is harmless, and slc_grow(s, k) with k > 0 gives
\* it capacity k and aborts for no reason but a failed allocation.
C22_ZeroSliceUsable ==
    /\ slc_len(ZeroSlc) = 0 /\ slc_cap(ZeroSlc) = 0
    /\ (slcLast.op = "free" /\ slcLast.pre = ZeroSlc) =>
           (slcStatus = "ok" /\ slc[slcLast.x] = ZeroSlc)
    /\ (slcLast.op = "grow" /\ slcLast.pre = ZeroSlc /\ slcLast.cap > 0) =>
           \/ slcStatus = "ok" /\ slc_cap(slc[slcLast.x]) = slcLast.cap
           \/ /\ slcStatus = "abort"
              /\ ~(Wrap(slcLast.cap * slcLast.pre.esize) < slcLast.cap)

\* C23: in every state reached from a BUF_NEW whose malloc succeeded by
\* BUF_PUSH and BUF_FREE in any order, also pushes after a BUF_FREE, no
\* push hands released storage to realloc, BUF_LEN <= BUF_CAP and every index below
\* BUF_LEN lies inside the allocated block; BUF_FREE leaves len = cap = 0.
C23_LenCapStorage ==
    (bufPc # "new" /\ bufname.p # NULL) =>
        /\ bufPc = "realloc" => bufname.p # FREED
        /\ BUF_LEN(bufname_len) <= BUF_CAP(bufname_cap)
        /\ bufname.p = PTR => BUF_LEN(bufname_len) <= Len(bufname.data)
        /\ bufname.p = FREED =>
               (BUF_LEN(bufname_len) = 0 /\ BUF_CAP(bufname_cap) = 0)

\* C24: a BUF_PUSH that has to reallocate has no way out but to complete:
\* while realloc fails it stays in its loop with storage, length and
\* capacity unchanged, and once realloc succeeds the push ends with the
\* element stored at index old len and len increased by one.
C24_PushRetriesThenCompletes ==
    /\ [][(bufPc = "realloc" /\ bufname.p = PTR) =>
            \/ /\ bufPc' = "realloc"
               /\ UNCHANGED <<bufname, bufname_len, bufname_cap, bufElem>>
            \/ /\ bufPc' = "idle"
               /\ bufname_len' = bufname_len + 1
               /\ bufname'.p = PTR
               /\ bufname'.data[bufname_len + 1] = bufElem]_bufVars
    /\ \A n \in 0..MaxPush, e \in Byte :
           (bufPc = "realloc" /\ bufname.p = PTR /\ bufname_len = n /\ bufElem = e)
               ~> (/\ bufPc = "idle" /\ bufname.p = PTR
                   /\ bufname_len = n + 1 /\ bufname.data[n + 1] = e)

\* a push in its loop after realloc has failed MaxRetry times
C24_Witness ==
    /\ bufPc = "realloc" /\ bufname.p = PTR
    /\ retries = MaxRetry
    /\ bufname_len = bufname_cap /\ bufname_len > 0

\* C25 as stated: between BUF_ATTACH and the first BUF_DETACH the pushes
\* change nothing observable through the holder: its three fields keep
\* their values and its storage is still the allocated block holding the
\* attached elements.  (Holders with allocated storage, no BUF_FREE.)
C25_HolderUnaffected ==
    (/\ att.on /\ ~att.detached /\ att.triple.cap > 0
     /\ bufPc \in {"idle", "realloc"} /\ bufname.p # FREED) =>
        /\ holder = att.triple
        /\ bufname.p = PTR /\ bufBlk = holder.blk
        /\ \A i \in 1..holder.len : bufname.data[i] = att.elems[i]

\* C25, amended: between BUF_ATTACH and the first BUF_DETACH the holder's
\* three fields keep their values; the holder's elements are unchanged as
\* long as its storage is the block of the local buffer, which it no longer
\* is once the realloc of a push has moved the block.  Right after
\* BUF_DETACH the holder's triple is the local triple, with
\* len = attached len + number of pushes, cap >= len and storage holding
\* the attached elements followed by the pushed ones in order.  No push
\* completes on a buffer attached with cap = 0.
C25_AttachDetach ==
    (att.on /\ bufPc \in {"idle", "realloc"}) =>
        /\ ~att.detached => holder = att.triple
        /\ (bufname.p = PTR /\ holder.blk = bufBlk) =>
               \A i \in 1..holder.len :
                   /\ i <= Len(att.elems) /\ i <= Len(bufname.data)
                   /\ bufname.data[i] = att.elems[i]
        /\ (att.synced /\ bufname.p = PTR) =>
               /\ holder = [blk |-> bufBlk, len |-> BUF_LEN(bufname_len),
                            cap |-> BUF_CAP(bufname_cap)]
               /\ holder.len = att.triple.len + npush
               /\ holder.cap >= holder.len
               /\ holder.len = Len(att.elems)
               /\ holder.cap = Len(bufname.data)
               /\ \A i \in 1..holder.len : bufname.data[i] = att.elems[i]
        /\ att.triple.cap = 0 => npush = 0

\* a detach after pushes one of which moved the block
C25_Witness ==
    /\ att.on /\ att.detached /\ att.synced /\ bufPc = "idle"
    /\ att.triple.len = 2
    /\ npush = MaxAttPush
    /\ holder.blk > att.triple.blk
    /\ holder.len = 2 + MaxAttPush

\* C26: vect_destroy releases the array and sets len = cap = 0, and a later
\* vect_append, vect_clear or vect_destroy on the destroyed vector never
\* hands the released pointer to the allocator again.
C26_DestroyReuse ==
    /\ (vectLast.op = "destroy" /\ vectStatus = "ok") =>
           (vect.len = 0 /\ vect.cap = 0 /\ vect.buf # PTR)
    /\ (vectLast.op \in {"append", "clear", "destroy"} /\ vect.buf = FREED) =>
           vectStatus # "ub"

C28_GetSetBounds ==
    [][(vectOps' # vectOps /\ vectLast'.op \in {"get", "set"}) =>
          LET l == vectLast'
          IN  IF l.ind >= vect.len
              THEN vectStatus' = "abort" /\ vect' = vect
              ELSE /\ vectStatus' = "ok"
                   /\ vect'.len = vect.len /\ vect'.cap = vect.cap
                   /\ l.op = "get" =>
                          /\ vect' = vect
                          /\ l.ret = [i \in 1..tsiz |-> vect.data[l.ind * tsiz + i]]
                   /\ l.op = "set" =>
                          /\ l.val = [i \in 1..tsiz |-> vect'.data[l.ind * tsiz + i]]
                          /\ \A c \in 1..Len(vect.data) :
                                 (c <= l.ind * tsiz \/ c > (l.ind + 1) * tsiz) =>
                                     vect'.data[c] = vect.data[c]
      ]_vectVars

\* a vect_set at index len of a vector that holds elements
C28_Witness ==
    /\ vectLast.op = "set" /\ vectStatus = "abort"
    /\ vect.len >= 2 /\ vectLast.ind = vect.len

\* C29: every fatal path writes exactly one diagnostic line that begins with
\* "PANIC:" to the standard error stream and then aborts: a string call, a
\* slice call or a vector call that has aborted has written that one line to
\* stderr, and a call that has not aborted has written none.
C29_PanicToStderr ==
    /\ strDiag = IF status = "abort" THEN <<Diag("stderr", "PANIC:")>> ELSE <<>>
    /\ slcDiag = IF slcStatus = "abort" THEN <<Diag("stderr", "PANIC:")>> ELSE <<>>
    /\ vectDiag = IF vectStatus = "abort" THEN <<Diag("stderr", "PANIC:")>> ELSE <<>>

\* C30: for all reachable strings a and b, str_compare(a, b) is a defined
\* call whose result is negative, zero or positive as a is lexicographically
\* less than, equal to or greater than b by byte value over their len bytes,
\* a proper prefix sorting first; it is 0 exactly when a and b have the same
\* length and the same bytes (so str_compare(a, a) = 0).
C30_CompareLexicographic ==
    (last.op = "compare") =>
        LET a == last.pre
            b == last.b
            la == str_len(a)
            lb == str_len(b)
            Same(k) == \A i \in 1..k : a.mem[i] = b.mem[i]
            Less(x, lx, y, ly) ==
                \E k \in 0..lx :
                    /\ k <= ly /\ Same(k)
                    /\ IF k = lx THEN k < ly
                                 ELSE k < ly /\ x.mem[k + 1] < y.mem[k + 1]
        IN  /\ status = "ok"
            /\ (la <= Len(a.mem) /\ lb <= Len(b.mem)) =>
                   /\ (last.ret < 0) <=> Less(a, la, b, lb)
                   /\ (last.ret > 0) <=> Less(b, lb, a, la)
                   /\ (last.ret = 0) <=> (la = lb /\ Same(la))

C32_LenLeCap ==
    /\ \A x \in SlcNames :
           /\ slc_len(slc[x]) <= slc_cap(slc[x])
           /\ slc_buflen(slc[x]) = (slc[x].esize * slc[x].len) % (STR_SIZE_MAX + 1)
           /\ slc_bufcap(slc[x]) = (slc[x].esize * slc[x].cap) % (STR_SIZE_MAX + 1)
           /\ slc_buflen(slc[x]) <= slc_bufcap(slc[x])
    /\ (slcLast.op = "make") =>
           LET cap == IF slcLast.icap = 0 THEN 2 ELSE slcLast.icap
           IN  /\ slcLast.ilen > cap => slcStatus = "abort"
               /\ slcStatus = "ok" =>
                      /\ slc_len(slc[slcLast.x]) = slcLast.ilen
                      /\ slc_cap(slc[slcLast.x]) = cap
                      /\ slc[slcLast.x].sub = 0

\* a slice resliced from a subview whose window does not start at the
\* owner's first element, filling its capacity
C32_Witness ==
    /\ slcLast.op = "reslice" /\ slcStatus = "ok"
    /\ slcLast.pre.sub = 1 /\ slcLast.pre.buf.off > 0
    /\ slcLast.lower > 0
    /\ slc_len(slc[slcLast.y]) = slc_cap(slc[slcLast.y])
    /\ slc_len(slc[slcLast.y]) > 0

\* C33: for a string of internal capacity c and a delta d > 0 with
\* c + d (plus the zero-start byte) within STR_SIZE_MAX, str_grow(s, d)
\* returns 1, raises the reportable capacity by exactly d and keeps the
\* length and the first len bytes; str_grow(s, 0) on a string of capacity
\* c > 0 leaves the internal capacity 2 * c.
C33_GrowByDelta ==
    (last.op = "grow") =>
        LET pre == last.pre
            want == pre.cap + last.delta + (IF pre.cap = 0 THEN 1 ELSE 0)
        IN  /\ (last.delta > 0 /\ want <= STR_SIZE_MAX) =>
                   /\ status = "ok"
                   /\ last.ret = 1
                   /\ str_cap(str) = str_cap(pre) + last.delta
                   /\ str_len(str) = str_len(pre)
                   /\ SameBytes(str, 0, pre, str_len(pre))
            /\ (last.delta = 0 /\ pre.cap > 0) => str.cap = 2 * pre.cap

\* C34: when its allocations succeed, str_from(cstr) of a null-terminated
\* cstr of any length (shorter than, equal to or longer than the initial
\* buffer, across its doublings) has the length and the bytes of cstr, a
\* null byte after them inside the allocation (len < internal capacity),
\* and str_cstr reads back that content; str_from(NULL) is str_new(), of
\* length 0 and reportable capacity STR_INITIAL_BUFSIZ - 1.
C34_FromContent ==
    (last.op = "from" /\ \A k \in 1..Len(last.al) : last.al[k]) =>
        /\ status = "ok"
        /\ str = last.res
        /\ IF last.cnull
           THEN /\ str = str_new(TRUE)
                /\ str_len(str) = 0
                /\ str_cap(str) = STR_INITIAL_BUFSIZ - 1
           ELSE /\ str_len(str) = Len(last.cstr)
                /\ str_len(str) < str.cap
                /\ str.cap = Len(str.mem)
                /\ \A i \in 1..Len(last.cstr) : str.mem[i] = last.cstr[i]
                /\ str.mem[str_len(str) + 1] = 0
                /\ \A j \in Byte : FirstNul(str.mem, j) = Len(last.cstr)

\* a str_from of a C string that fills the doubled buffer, so that the
\* buffer was doubled twice
C34_Witness ==
    /\ last.op = "from" /\ status = "ok" /\ ~last.cnull
    /\ Len(last.cstr) = 2 * STR_INITIAL_BUFSIZ
    /\ str_len(str) = 2 * STR_INITIAL_BUFSIZ
    /\ str.cap = 4 * STR_INITIAL_BUFSIZ

\* C35: str_compact(str) whose reallocation succeeds leaves the length, the
\* len bytes and the null byte at offset len as they were and makes
\* str_cap(str) equal str_len(str), the block being len + 1 bytes; when the
\* reallocation fails the string is left as it was in every field.
C35_CompactKeeps ==
    (last.op = "compact") =>
        LET pre == last.pre
        IN  /\ status = "ok"
            /\ ~last.ok => str = pre
            /\ last.ok =>
                   /\ str_len(str) = str_len(pre)
                   /\ str_cap(str) = str_len(str)
                   /\ str.s = PTR /\ Len(str.mem) = str_len(str) + 1
                   /\ pre.s = PTR =>
                          \A i \in 1..Min(str_len(pre), Len(pre.mem)) :
                              str.mem[i] = pre.mem[i]
                   /\ Terminated(pre) => Terminated(str)

\* a compact that shrinks a terminated string of two characters
C35_Witness ==
    /\ last.op = "compact" /\ last.ok
    /\ Terminated(last.pre) /\ str_len(last.pre) = 2
    /\ str_cap(last.pre) > 2
    /\ str_cap(str) = 2

\* C36: on a string that is empty or has its len bytes inside its block,
\* str_truncate(str, n) with n >= len changes nothing; with n < len it
\* sets the length to n, writes a null byte at offset n, keeps the bytes
\* before offset n and every byte after it, and never changes the capacity
\* or the block; str_reset(str) leaves length 0 with the capacity unchanged.
C36_TruncateFrame ==
    (/\ last.op \in {"truncate", "reset"}
     /\ str_len(last.pre) > 0 =>
            (last.pre.s = PTR /\ str_len(last.pre) <= Len(last.pre.mem))) =>
        LET pre == last.pre
            n == IF last.op = "reset" THEN 0 ELSE last.n
        IN  /\ status = "ok"
            /\ str.cap = pre.cap /\ str.s = pre.s
            /\ n >= str_len(pre) => str = pre
            /\ n < str_len(pre) =>
                   /\ str_len(str) = n
                   /\ str.mem = [pre.mem EXCEPT ![n + 1] = 0]
            /\ last.op = "reset" => str_len(str) = 0

\* a truncate that shortens a string of two characters to one
C36_Witness ==
    /\ last.op = "truncate" /\ status = "ok"
    /\ str_len(last.pre) = 2 /\ last.n = 1
    /\ str_len(str) = 1 /\ str.mem[2] = 0 /\ last.pre.mem[2] # 0

\* C37: slc_grow(s, k) with k > cap(s) on a non-subview slice keeps the
\* bytes of every existing cell, the esize * cap(s) bytes the slice held
\* before the call, for every element size (a byte that was never
\* initialised has no value to keep).
C37_GrowKeepsCells ==
    (/\ slcLast.op = "grow" /\ slcStatus = "ok"
     /\ slcLast.pre.sub = 0 /\ slcLast.pre.cap > 0
     /\ slcLast.cap > slcLast.pre.cap) =>
        LET pre == slcLast.pre
            res == slc[slcLast.x]
        IN  \A off \in 0..(pre.esize * pre.cap - 1) :
                /\ Valid(heap, res.buf, off + 1)
                /\ slcLast.h[pre.buf.blk].data[pre.buf.off + off + 1] # Indet =>
                       heap[res.buf.blk].data[res.buf.off + off + 1]
                           = slcLast.h[pre.buf.blk].data[pre.buf.off + off + 1]

\* C38: str_append(dst, src) with dst and src the same string object, a
\* string with its null byte at offset len inside its block, returns when
\* its reallocation succeeds, with the length of the string doubled, its
\* content repeated twice and the null byte after it.
C38_AppendSelfDoubles ==
    (last.op = "append_self" /\ last.ok /\ Terminated(last.pre)) =>
        LET pre == last.pre
            n == str_len(pre)
        IN  /\ status = "ok"
            /\ str_len(str) = 2 * n
            /\ n > 0 =>
                   /\ Terminated(str)
                   /\ \A i \in 1..n : /\ str.mem[i] = pre.mem[i]
                                       /\ str.mem[n + i] = pre.mem[i]

\* C39: in any sequence of slc_free calls on a non-subview slice and its
\* subviews the backing array is released at most once: a slc_free on an
\* owner whose array was already released is a defined call that hands
\* nothing to the allocator again.
C39_FreeOnce ==
    (slcLast.op = "free" /\ slcLast.pre.sub = 0) =>
        /\ slcStatus = "ok"
        /\ slc_len(slc[slcLast.x]) = 0 /\ slc_cap(slc[slcLast.x]) = 0
        /\ slcLast.pre.buf # NullPtr => ~heap[slcLast.pre.buf.blk].live

\* C40: a subview b obtained from the non-subview base a by a chain of
\* slc_ref and slc_reslice calls has, as long as the capacity and the
\* storage of a are unchanged, the element size of a, and the element
\* offset of its buffer from a's buffer plus cap(b) is cap(a), so that its
\* capacity window ends where a's backing array ends.  The relation is set
\* up by a slc_ref or slc_reslice of a, kept by one of b, and kept by every
\* other call that leaves a's capacity and storage alone.
C40_SubviewWindow ==
    [][LET Window(s, base) ==
               /\ s.sub = 1 /\ base.sub = 0
               /\ s.esize = base.esize
               /\ s.buf.blk = base.buf.blk
               /\ s.cap <= base.cap
               /\ s.buf.off - base.buf.off = (base.cap - s.cap) * base.esize
               /\ s.buf.off + s.cap * s.esize
                      = base.buf.off + base.cap * base.esize
           derive == /\ slcLast'.op \in {"ref", "reslice"}
                     /\ slcStatus' = "ok"
                     /\ slcOps' # slcOps
       IN  /\ (derive /\ slcLast'.x = "a" /\ slc["a"].sub = 0)
                  => Window(slc'["b"], slc'["a"])
           /\ (derive /\ slcLast'.x = "b" /\ Window(slc["b"], slc["a"]))
                  => Window(slc'["b"], slc'["a"])
           /\ (/\ ~derive /\ Window(slc["b"], slc["a"])
               /\ slc'["a"].cap = slc["a"].cap /\ slc'["a"].buf = slc["a"].buf
               /\ slc'["a"].sub = 0 /\ slc'["a"].esize = slc["a"].esize)
                  => Window(slc'["b"], slc'["a"])
      ]_slcVars

\* a subview resliced from a subview of an owner of two-byte elements, its
\* window starting at the owner's last element
C40_Witness ==
    /\ slcLast.op = "reslice" /\ slcStatus = "ok" /\ slcLast.x = "b"
    /\ slcLast.pre.sub = 1 /\ slcLast.pre.buf.off > 0 /\ slcLast.lower > 0
    /\ slc["a"].sub = 0 /\ slc["a"].esize = 2 /\ slc["a"].cap = MaxSlcCap
    /\ slc["b"].buf.blk = slc["a"].buf.blk
    /\ slc["b"].cap = 1
    /\ slc["b"].buf.off = (MaxSlcCap - 1) * 2

vars == <<strVars, slcVars, bufVars, vectVars>>

Init == StrInit /\ SlcInit /\ BufInit /\ VectInit

\* the calls on a string
SpecStr == Init /\ [][StrNext]_vars

\* the calls on slices
SpecSlc == Init /\ [][SlcNext]_vars

\* the runs of a caller of buf.h
SpecBuf == Init /\ [][BufNext]_vars

\* the runs of a caller of vect.h
SpecVect == Init /\ [][VectNext]_vars

\* the buffer with an allocator that does not fail for ever: the realloc of
\* a BUF_PUSH in its loop succeeds in the end
SpecBufLive == Init /\ [][BufNext]_vars /\ WF_vars(BufRealloc)

====
